---- MODULE Spec2Model ----
(***************************************************************************)
(* Model of the CSV-ingestion strategies of tokio-axum-csv-demo:           *)
(*   examples/sync_vs_async_benchmark.rs  (the four benchmark_* functions) *)
(*   examples/tokio_csv_demo.rs           (concurrent_chunk_processing)    *)
(*   examples/axum_csv_server.rs          (compare_processing_methods)     *)
(*   src/performance_utils.rs             (PerformanceTimer)               *)
(*                                                                         *)
(* A file is described by its number of lines and by the positions of the  *)
(* data lines that are not decodable rows: `bad` lines are rows that fail  *)
(* to deserialize into SalesRecord, `blank` lines are empty lines, which   *)
(* the csv reader skips without yielding a row.  Every other data line is  *)
(* a row that decodes.  A slice of data lines is a view [start, len] into  *)
(* data_lines, as a Rust slice is.                                         *)
(***************************************************************************)
EXTENDS Integers, Sequences, FiniteSets, TLC

VARIABLES strategy, file, pc, chunk_size, chunks, tasks, next, joined,
          total_records, reduced, main, other, finished, outcome, order,
          srv, perf

vars == <<strategy, file, pc, chunk_size, chunks, tasks, next, joined,
          total_records, reduced, main, other, finished, outcome, order,
          srv, perf>>

\* the state of one benchmark run
benchVars == <<strategy, file, pc, chunk_size, chunks, tasks, next, joined,
               total_records, reduced, main, other, finished, outcome, order>>

(* ---------------- program constants ---------------- *)

FixedFloor == 10000
AsyncParallelTarget == 8
ConcurrentTarget == 4
ServerChunkSize == 1000
YieldEvery == 1000
SimpleYieldEvery == 100
BytesPerRecord == 100
BytesPerMB == 1000000
MicrosPerSec == 1000000

(* ---------------- bounds of the model ---------------- *)

MaxMult == 2
MaxBad == 1
MaxBlank == 1
MaxCpus == 3
MaxOther == 1
MaxChunkMult == 9
MaxOffset == 8
LiveExtra == 1
LiveMarks == 1
MaxTimers == 2
MaxClock == 2
MaxCount == 2
MaxReq == 2
MaxFields == 2
MaxRecords == 1
MaxBytes == 1
LiveFields == 1

(* ---------------- helpers ---------------- *)

Min(S) == CHOOSE x \in S : \A y \in S : x <= y

\* the quotient alone, without the floor
MaxDropsFloor(a, b) == b

Max2(a, b) == IF a >= b THEN a ELSE b

Min2(a, b) == IF a <= b THEN a ELSE b

CeilDiv(a, b) == (a + b - 1) \div b

RECURSIVE SumSeq(_)
SumSeq(s) == IF s = <<>> THEN 0 ELSE Head(s) + SumSeq(Tail(s))

(* ---------------- the strategies ---------------- *)

Sync == "benchmark_sync_processing"
Async == "benchmark_async_processing"
Parallel == "benchmark_parallel_processing"
AsyncParallel == "benchmark_async_parallel_processing"
Concurrent == "concurrent_chunk_processing"
Compare == "compare_processing_methods"
SimpleAsync == "async_benchmark"

Strategies == {Sync, Async, Parallel, AsyncParallel, Concurrent, Compare, SimpleAsync}

ChunkingSites == {Parallel, AsyncParallel, Concurrent, Compare}

TaskBased == {AsyncParallel, Concurrent}

\* the single-task loops that yield every K rows
Cooperative == {Async, SimpleAsync}

(* ---------------- files, lines and slices ---------------- *)

\* content.lines().collect(): the number of lines of the file
LinesLen(f) == f.nlines

\* &lines[1..]: the data lines, as a view into the file
DataLines(f) == [start |-> 1, len |-> f.nlines - 1]

NonRows(f, lo, hi) == {q \in f.bad \cup f.blank : lo <= q /\ q <= hi}

\* number of rows of data lines lo..hi that decode into a SalesRecord
GoodIn(f, lo, hi) == IF hi < lo THEN 0 ELSE (hi - lo + 1) - Cardinality(NonRows(f, lo, hi))

\* reader.deserialize() over the whole content, every result taken with `?`
\* or unwrap(): the count of records, or the failure of the first bad row
DecodeWhole(f) ==
    IF f.nlines = 0 THEN [ok |-> TRUE, count |-> 0]
    ELSE IF f.bad # {} THEN [ok |-> FALSE, count |-> GoodIn(f, 1, Min(f.bad) - 1)]
    ELSE [ok |-> TRUE, count |-> GoodIn(f, 1, f.nlines - 1)]

(* ---------------- the Chunker ---------------- *)

\* the chunk size rounded up instead of down
ChunkSizeCeil(site, n, cpus) ==
    IF site = Parallel THEN Max2(FixedFloor, CeilDiv(n, cpus))
    ELSE IF site = AsyncParallel THEN Max2(FixedFloor, CeilDiv(n, AsyncParallelTarget))
    ELSE IF site = Concurrent THEN Max2(FixedFloor, CeilDiv(n, ConcurrentTarget))
    ELSE ServerChunkSize

\* the chunk-size expression of each chunking site; cpus is num_cpus::get()
ChunkSize(site, n, cpus) ==
    IF site = Parallel THEN Max2(FixedFloor, n \div cpus)
    ELSE IF site = AsyncParallel THEN Max2(FixedFloor, n \div AsyncParallelTarget)
    ELSE IF site = Concurrent THEN Max2(FixedFloor, n \div ConcurrentTarget)
    ELSE ServerChunkSize

\* chunks_exact in place of chunks: the remainder shorter than size is dropped
RECURSIVE ChunksExact(_, _)
ChunksExact(v, size) ==
    IF v.len < size THEN <<>>
    ELSE <<[start |-> v.start, len |-> size]>>
         \o ChunksExact([start |-> v.start + size, len |-> v.len - size], size)

\* the rest of the slice taken one line too early: chunks overlap by a line
RECURSIVE ChunksOverlap(_, _)
ChunksOverlap(v, size) ==
    IF v.len = 0 THEN <<>>
    ELSE LET sz == Min2(v.len, size)
         IN  <<[start |-> v.start, len |-> sz]>>
             \o (IF v.len = sz THEN <<>>
                 ELSE ChunksOverlap([start |-> v.start + sz - 1,
                                     len |-> v.len - sz + 1], size))

\* slice::chunks / par_chunks: split off min(len, size) lines until the
\* slice is empty (size = 0 panics before any chunk is made)
RECURSIVE Chunks(_, _)
Chunks(v, size) ==
    IF v.len = 0 THEN <<>>
    ELSE LET sz == Min2(v.len, size)
         IN  <<[start |-> v.start, len |-> sz]>>
             \o Chunks([start |-> v.start + sz, len |-> v.len - sz], size)

(* ---------------- the Decoder loops ---------------- *)

\* the data line holding the j-th decodable row at or after line p
NthGood(f, p, j) ==
    Min({r \in (p + j - 1)..(p + j - 1 + Cardinality(f.bad \cup f.blank)) :
            r \notin (f.bad \cup f.blank) /\ GoodIn(f, p, r) = j})

\* the loop losing the row that follows a yield checkpoint when it resumes
StepSkipsRow(f, v, pos, count, k, policy) ==
    LET hi == v.start + v.len - 1
        badStop == IF policy = "skip" THEN hi + 1
                   ELSE Min({q \in f.bad : pos <= q /\ q <= hi} \cup {hi + 1})
        goodYield == IF k = 0 THEN hi + 1
                     ELSE Min2(NthGood(f, pos, k - (count % k)), hi + 1)
        badYield == IF k = 0 \/ policy # "skip" THEN hi + 1
                    ELSE Min({q \in f.bad : /\ pos <= q /\ q <= hi
                                            /\ (count + GoodIn(f, pos, q)) % k = 0}
                             \cup {hi + 1})
        stop == Min2(badStop, Min2(goodYield, badYield))
    IN  IF stop > hi
        THEN [event |-> "end", pos |-> hi + 1, count |-> count + GoodIn(f, pos, hi)]
        ELSE IF stop = badStop
        THEN [event |-> "fail", pos |-> stop, count |-> count + GoodIn(f, pos, stop)]
        ELSE [event |-> "yield", pos |-> stop + 2, count |-> count + GoodIn(f, pos, stop)]

\* One uninterrupted run of a `for result in reader.deserialize()` loop over
\* the slice v, entered at line pos with `count` rows counted so far.
\*   policy "abort"  : let record = result?;               (returns Err)
\*   policy "unwrap" : let record = result.unwrap();       (panics)
\*   policy "skip"   : if let Ok(record) = result { count += 1 }
\*   k > 0           : if count % k == 0 { yield_now().await } after a row;
\*                     under "skip" the test follows bad rows as well
\* The run ends at the first row that fails (abort/unwrap), at the first
\* row after which the loop yields, or at the end of the slice.
Step(f, v, pos, count, k, policy) ==
    LET hi == v.start + v.len - 1
        badStop == IF policy = "skip" THEN hi + 1
                   ELSE Min({q \in f.bad : pos <= q /\ q <= hi} \cup {hi + 1})
        goodYield == IF k = 0 THEN hi + 1
                     ELSE Min2(NthGood(f, pos, k - (count % k)), hi + 1)
        badYield == IF k = 0 \/ policy # "skip" THEN hi + 1
                    ELSE Min({q \in f.bad : /\ pos <= q /\ q <= hi
                                            /\ (count + GoodIn(f, pos, q)) % k = 0}
                             \cup {hi + 1})
        stop == Min2(badStop, Min2(goodYield, badYield))
    IN  IF stop > hi
        THEN [event |-> "end", pos |-> hi + 1, count |-> count + GoodIn(f, pos, hi)]
        ELSE IF stop = badStop
        THEN [event |-> "fail", pos |-> stop, count |-> count + GoodIn(f, pos, stop)]
        ELSE [event |-> "yield", pos |-> stop + 1, count |-> count + GoodIn(f, pos, stop)]

(* ---------------- the inputs ---------------- *)

\* numbers of data lines: tiny files and files around multiples of the floor
MainN == {0, 1, 2} \cup {m * FixedFloor + d : m \in 1..MaxMult, d \in 0..1}

\* the data lines that may be bad or blank: the first rows, the row after a
\* yield checkpoint, the first row of the second chunk
Marks(n) == {1, 2, YieldEvery + 1, FixedFloor + 1} \cap (1..n)

\* `ragged` tells whether the bad rows have a wrong number of fields (they
\* then fail already as plain records) or only a field of the wrong type
FilesOf(n) ==
    {[nlines |-> n + 1, bad |-> b, blank |-> bl, ragged |-> rg] :
        b \in {x \in SUBSET Marks(n) : Cardinality(x) <= MaxBad},
        bl \in {x \in SUBSET Marks(n) : Cardinality(x) <= MaxBlank},
        rg \in BOOLEAN}

Files ==
    {[nlines |-> 0, bad |-> {}, blank |-> {}, ragged |-> FALSE]}
    \cup {f \in UNION {FilesOf(n) : n \in MainN} :
             f.bad \cap f.blank = {} /\ (f.ragged => f.bad # {})}

\* the file as reader.records() sees it: a row fails only when it is ragged
AsRecords(f) == [f EXCEPT !.bad = IF f.ragged THEN f.bad ELSE {}]

\* async_benchmark with the interval of benchmark_async_processing
CoopYieldSame(s) == YieldEvery

\* the yield interval of a cooperative loop
CoopYield(s) == IF s = Async THEN YieldEvery ELSE SimpleYieldEvery

\* what the loop of a cooperative strategy iterates: deserialize() in
\* benchmark_async_processing, records() in async_benchmark
CoopView(f, s) == IF s = Async THEN f ELSE AsRecords(f)

\* the rows a reader over the whole content iterates (header excluded)
Rows(f) == [start |-> 1, len |-> IF f.nlines = 0 THEN 0 ELSE f.nlines - 1]

NewTask(c, st) == [st |-> st, pos |-> c.start, count |-> 0, yields |-> 0]

(* ---------------- the state machine ---------------- *)

\* no request in flight and nothing stored: the Axum server is not running
NoServer == [reqs |-> <<>>, holder |-> 0,
             disk |-> [state |-> "missing", records |-> 0],
             upload_metrics |-> <<>>, processing_metrics |-> <<>>,
             cached_data |-> {}]

\* no timer started and no metrics produced yet
NoTimers == [now |-> 0, timers |-> <<>>, records |-> <<>>, calls |-> <<>>]

Init ==
    /\ strategy \in Strategies
    /\ file \in Files
    \* only reader.records() tells a ragged row from a mistyped one
    /\ file.ragged => strategy = SimpleAsync
    /\ pc = "start"
    /\ chunk_size = 0
    /\ chunks = <<>>
    /\ tasks = <<>>
    /\ next = 1
    /\ joined = 0
    /\ total_records = 0
    /\ reduced = {}
    /\ main = [pos |-> 1, count |-> 0, yields |-> 0]
    /\ other = 0
    /\ finished = <<>>
    /\ outcome = "running"
    /\ order = <<>>
    /\ srv = NoServer
    /\ perf = NoTimers

\* the operation label given to PerformanceTimer::new
Label(s) ==
    IF s = Sync THEN "Synchronous Processing"
    ELSE IF s = Async THEN "Asynchronous Processing"
    ELSE IF s = Parallel THEN "Parallel Processing (Rayon)"
    ELSE IF s = AsyncParallel THEN "Async + Parallel Processing"
    ELSE IF s = Concurrent THEN "Concurrent Chunk Processing"
    ELSE "Chunked Processing"

\* PerformanceTimer::finish: the record handed back for the timed operation
Metrics(op, n) == [operation |-> op, records_processed |-> n]

\* timer.finish(n) followed by Ok(()): the run produces its record and ends
FinishOk(n) ==
    /\ finished' = Append(finished, Metrics(Label(strategy), n))
    /\ outcome' = "ok"
    /\ pc' = "done"

\* the error path that still reports what was counted so far
AbortPartial(o) ==
    /\ outcome' = o
    /\ pc' = "done"
    /\ finished' = Append(finished, Metrics(Label(strategy), total_records))

\* the run ends without calling timer.finish: o is "err" (an Err returned
\* through `?`) or "panic"
Abort(o) ==
    /\ outcome' = o
    /\ pc' = "done"
    /\ UNCHANGED finished

\* fs::read_to_string(file_path)? of the benchmark_* functions and of
\* concurrent_chunk_processing
ReadFile ==
    /\ pc = "start"
    /\ strategy # Compare
    /\ \E ok \in BOOLEAN :
          IF ok THEN pc' = "loaded" /\ UNCHANGED <<outcome, finished>>
          ELSE Abort("err")
    /\ UNCHANGED <<srv, perf, order, strategy, file, chunk_size, chunks, tasks, next, joined,
                   total_records, reduced, main, other>>

\* benchmark_sync_processing: decode every row, `?` on each, finish(len)
SyncDecode ==
    /\ pc = "loaded"
    /\ strategy = Sync
    /\ LET r == DecodeWhole(file)
       IN  IF r.ok THEN FinishOk(r.count) ELSE Abort("err")
    /\ UNCHANGED <<srv, perf, order, strategy, file, chunk_size, chunks, tasks, next, joined,
                   total_records, reduced, main, other>>

\* benchmark_async_processing and async_benchmark: one run of the loop
\* between two suspensions. At the end of the loop the first calls
\* timer.finish(records.len()); the second only prints its own timing.
AsyncStep ==
    /\ pc = "loaded"
    /\ strategy \in Cooperative
    /\ LET r == Step(CoopView(file, strategy), Rows(file), main.pos, main.count,
                     CoopYield(strategy), "abort")
       IN  /\ main' = [pos |-> r.pos, count |-> r.count,
                       yields |-> IF r.event = "yield" THEN main.yields + 1
                                  ELSE main.yields]
           /\ IF r.event = "yield" THEN UNCHANGED <<pc, outcome, finished>>
              ELSE IF r.event = "end"
              THEN IF strategy = Async THEN FinishOk(r.count)
                   ELSE outcome' = "ok" /\ pc' = "done" /\ UNCHANGED finished
              ELSE Abort("err")
    /\ UNCHANGED <<srv, perf, order, strategy, file, chunk_size, chunks, tasks, next, joined,
                   total_records, reduced, other>>

\* whatever else the scheduler runs while a cooperative loop is suspended
\* at an await
OtherWork ==
    /\ pc = "loaded"
    /\ strategy \in Cooperative
    /\ other < MaxOther
    /\ other' = other + 1
    /\ UNCHANGED <<srv, perf, order, strategy, file, pc, chunk_size, chunks, tasks, next, joined,
                   total_records, reduced, main, finished, outcome>>

\* The split of the three chunking benchmarks: lines, the is_empty guard
\* (absent from concurrent_chunk_processing, where lines[0] panics), header,
\* data_lines, chunk_size and the chunks.  No chunk means no loop iteration:
\* the function goes straight to timer.finish(0).
Split ==
    /\ pc = "loaded"
    /\ strategy \in {Parallel, AsyncParallel, Concurrent}
    /\ IF LinesLen(file) = 0
       THEN /\ IF strategy = Concurrent THEN Abort("panic") ELSE FinishOk(0)
            /\ UNCHANGED <<chunk_size, chunks, tasks>>
       ELSE \E cpus \in 1..MaxCpus :
              LET size == ChunkSize(strategy, DataLines(file).len, cpus)
                  cs == Chunks(DataLines(file), size)
              IN  /\ chunk_size' = size
                  /\ IF size = 0
                     THEN Abort("panic") /\ UNCHANGED <<chunks, tasks>>
                     ELSE /\ chunks' = cs
                          /\ tasks' = [i \in 1..Len(cs) |->
                                         NewTask(cs[i], IF strategy = Parallel
                                                        THEN "pending" ELSE "unspawned")]
                          /\ IF cs = <<>> THEN FinishOk(0)
                             ELSE /\ pc' = IF strategy = Parallel THEN "workers" ELSE "spawn"
                                  /\ UNCHANGED <<outcome, finished>>
    /\ UNCHANGED <<srv, perf, order, strategy, file, next, joined, total_records, reduced, main, other>>

\* tokio::spawn of the task of the next chunk; tasks.push(task)
SpawnTask ==
    /\ pc = "spawn"
    /\ next <= Len(chunks)
    /\ tasks' = [tasks EXCEPT ![next].st = "ready"]
    /\ next' = next + 1
    /\ UNCHANGED <<srv, perf, order, strategy, file, pc, chunk_size, chunks, joined, total_records,
                   reduced, main, other, finished, outcome>>

\* the yield interval and the error policy of the loop inside a spawned task
TaskYield(s) == IF s = AsyncParallel THEN YieldEvery ELSE 0

TaskPolicy(s) == IF s = AsyncParallel THEN "skip" ELSE "unwrap"

\* a task that is never scheduled again after it has yielded
TaskStepParks(i) ==
    /\ pc = "spawn"
    /\ tasks[i].st = "ready"
    /\ LET t == tasks[i]
           r == Step(file, chunks[i], t.pos, t.count, TaskYield(strategy),
                     TaskPolicy(strategy))
       IN  tasks' = [tasks EXCEPT ![i] =
                       [st |-> IF r.event = "yield" THEN "parked"
                               ELSE IF r.event = "end" THEN "done" ELSE "panicked",
                        pos |-> r.pos, count |-> r.count,
                        yields |-> IF r.event = "yield" THEN t.yields + 1 ELSE t.yields]]
    /\ order' = IF tasks'[i].st \in {"done", "panicked"} THEN Append(order, i) ELSE order
    /\ UNCHANGED <<srv, perf, strategy, file, pc, chunk_size, chunks, next, joined, total_records,
                   reduced, main, other, finished, outcome>>

\* one run of spawned task i between two suspensions
TaskStep(i) ==
    /\ pc = "spawn"
    /\ tasks[i].st = "ready"
    /\ LET t == tasks[i]
           r == Step(file, chunks[i], t.pos, t.count, TaskYield(strategy),
                     TaskPolicy(strategy))
       IN  tasks' = [tasks EXCEPT ![i] =
                       [st |-> IF r.event = "yield" THEN "ready"
                               ELSE IF r.event = "end" THEN "done" ELSE "panicked",
                        pos |-> r.pos, count |-> r.count,
                        yields |-> IF r.event = "yield" THEN t.yields + 1 ELSE t.yields]]
    /\ order' = IF tasks'[i].st \in {"done", "panicked"} THEN Append(order, i) ELSE order
    /\ UNCHANGED <<srv, perf, strategy, file, pc, chunk_size, chunks, next, joined, total_records,
                   reduced, main, other, finished, outcome>>

\* the reduction that keeps the last count instead of adding it
JoinOverwrite(total, count) == count

\* total_records += task.await?
JoinAdd(total, count) == total + count

\* a handle that resolves as soon as its task has been spawned
ResolvedNoWait(t) == t.st # "unspawned"

\* task.await resolves only when the task has run to its end or panicked
Resolved(t) == t.st \in {"done", "panicked"}

\* the await loop: the next handle, in spawn order, resolves once its task
\* has finished; a panicked task resolves to a JoinError that `?` returns.
\* After the last handle the loop ends and timer.finish(total_records) runs.
AwaitTask ==
    /\ pc = "spawn"
    /\ next > Len(chunks)
    /\ joined < Len(chunks)
    /\ Resolved(tasks[joined + 1])
    /\ IF tasks[joined + 1].st = "panicked"
       THEN Abort("err") /\ UNCHANGED <<joined, total_records>>
       ELSE /\ joined' = joined + 1
            /\ total_records' = JoinAdd(total_records, tasks[joined + 1].count)
            /\ IF joined + 1 = Len(chunks) THEN FinishOk(total_records')
               ELSE UNCHANGED <<pc, outcome, finished>>
    /\ UNCHANGED <<srv, perf, order, strategy, file, chunk_size, chunks, tasks, next, reduced, main, other>>

\* a chunk handed to a worker again after it was decoded
PendingOrDone(t) == t.st \in {"pending", "done"}

\* par_chunks hands each chunk to the map closure once
Pending(t) == t.st = "pending"

\* the map closure of par_chunks on a rayon worker: count the Ok rows
Worker(i) ==
    /\ pc = "workers"
    /\ Pending(tasks[i])
    /\ LET r == Step(file, chunks[i], chunks[i].start, 0, 0, "skip")
       IN  tasks' = [tasks EXCEPT ![i] = [@ EXCEPT !.st = "done", !.pos = r.pos,
                                                   !.count = r.count]]
    /\ order' = IF tasks'[i].st \in {"done", "panicked"} THEN Append(order, i) ELSE order
    /\ UNCHANGED <<srv, perf, strategy, file, pc, chunk_size, chunks, next, joined, total_records,
                   reduced, main, other, finished, outcome>>

\* .sum(): rayon folds the counts of finished chunks in no fixed order; the
\* sum is bound to total_records, and timer.finish runs, once all are folded
Combine(i) ==
    /\ pc = "workers"
    /\ tasks[i].st = "done"
    /\ i \notin reduced
    /\ reduced' = reduced \cup {i}
    /\ total_records' = JoinAdd(total_records, tasks[i].count)
    /\ IF reduced' = 1..Len(chunks) THEN FinishOk(total_records')
       ELSE UNCHANGED <<pc, outcome, finished>>
    /\ UNCHANGED <<srv, perf, order, strategy, file, chunk_size, chunks, tasks, next, joined, main, other>>

\* compare_processing_methods, method 1: read, decode with unwrap, finish
CompareMethod1 ==
    /\ pc = "start"
    /\ strategy = Compare
    /\ \E ok \in BOOLEAN :
          IF ~ok THEN pc' = "method2" /\ UNCHANGED <<outcome, finished>>
          ELSE LET r == DecodeWhole(file)
               IN  IF r.ok THEN /\ finished' = Append(finished,
                                                    Metrics("Standard Async Processing", r.count))
                                /\ pc' = "method2"
                                /\ UNCHANGED outcome
                   ELSE Abort("panic")
    /\ UNCHANGED <<srv, perf, order, strategy, file, chunk_size, chunks, tasks, next, joined,
                   total_records, reduced, main, other>>

\* method 2: read, lines, lines[1..] (panics on no line), chunks of 1000
CompareMethod2 ==
    /\ pc = "method2"
    /\ \E ok \in BOOLEAN :
          IF ~ok
          THEN /\ outcome' = "ok" /\ pc' = "done"
               /\ UNCHANGED <<finished, chunk_size, chunks>>
          ELSE IF LinesLen(file) = 0
          THEN Abort("panic") /\ UNCHANGED <<chunk_size, chunks>>
          ELSE LET size == ChunkSize(Compare, DataLines(file).len, 1)
                   cs == Chunks(DataLines(file), size)
               IN  /\ chunk_size' = size
                   /\ chunks' = cs
                   /\ IF cs = <<>> THEN FinishOk(0)
                      ELSE pc' = "chunkloop" /\ UNCHANGED <<outcome, finished>>
    /\ UNCHANGED <<srv, perf, order, strategy, file, tasks, next, joined, total_records, reduced,
                   main, other>>

\* one iteration of the chunk loop: decode the chunk with unwrap, adding to
\* total_count, then yield_now().await
CompareChunk ==
    /\ pc = "chunkloop"
    /\ next <= Len(chunks)
    /\ LET r == Step(file, chunks[next], chunks[next].start, 0, 0, "unwrap")
       IN  IF r.event = "fail"
           THEN Abort("panic") /\ UNCHANGED <<next, total_records>>
           ELSE /\ total_records' = JoinAdd(total_records, r.count)
                /\ next' = next + 1
                /\ UNCHANGED <<pc, outcome, finished>>
    /\ UNCHANGED <<srv, perf, order, strategy, file, chunk_size, chunks, tasks, joined, reduced,
                   main, other>>

\* resumed after the last chunk's yield: timer.finish(total_count)
CompareFinish ==
    /\ pc = "chunkloop"
    /\ next > Len(chunks)
    /\ FinishOk(total_records)
    /\ UNCHANGED <<srv, perf, order, strategy, file, chunk_size, chunks, tasks, next, joined,
                   total_records, reduced, main, other>>

Next ==
    \/ ReadFile
    \/ SyncDecode
    \/ AsyncStep
    \/ OtherWork
    \/ Split
    \/ SpawnTask
    \/ \E i \in 1..Len(tasks) : TaskStep(i)
    \/ AwaitTask
    \/ \E i \in 1..Len(tasks) : Worker(i)
    \/ \E i \in 1..Len(tasks) : Combine(i)
    \/ CompareMethod1
    \/ CompareMethod2
    \/ CompareChunk
    \/ CompareFinish

Spec == Init /\ [][Next]_vars

\* the inputs of the runs followed to their end: up to one floor of data
\* lines and LiveExtra more, with up to LiveMarks bad or blank lines
LiveFiles ==
    {f \in Files : /\ f.nlines <= FixedFloor + LiveExtra + 1
                   /\ Cardinality(f.bad) + Cardinality(f.blank) <= LiveMarks}

InitLive == Init /\ file \in LiveFiles

\* the tokio scheduler and the rayon pool keep running whatever can run
FairSpec == InitLive /\ [][Next]_vars /\ WF_vars(Next)

(* ---------------- the Chunker on its own ---------------- *)

\* numbers of data lines around every multiple of the floor up to the point
\* where each target count (cpus, 4, 8) is exceeded
ChunkN == {n \in {m * FixedFloor + d : m \in 0..MaxChunkMult, d \in (-1)..MaxOffset} : n >= 0}

\* a chunking site about to split the content it has read
InitChunk ==
    /\ strategy \in ChunkingSites
    /\ file \in {[nlines |-> n + 1, bad |-> {}, blank |-> {}, ragged |-> FALSE] : n \in ChunkN}
    /\ pc = IF strategy = Compare THEN "method2" ELSE "loaded"
    /\ chunk_size = 0
    /\ chunks = <<>>
    /\ tasks = <<>>
    /\ next = 1
    /\ joined = 0
    /\ total_records = 0
    /\ reduced = {}
    /\ main = [pos |-> 1, count |-> 0, yields |-> 0]
    /\ other = 0
    /\ finished = <<>>
    /\ outcome = "running"
    /\ order = <<>>
    /\ srv = NoServer
    /\ perf = NoTimers

NextChunk == Split \/ CompareMethod2

SpecChunk == InitChunk /\ [][NextChunk]_vars

(* ---------------- the metrics collector ---------------- *)

\* a as f64 / b as f64 for non-negative operands: the quotient num/den, or
\* what IEEE 754 division by zero gives, NaN for 0/0 and +infinity otherwise
F64Div(a, b) ==
    IF b # 0 THEN [class |-> "finite", num |-> a, den |-> b]
    ELSE IF a = 0 THEN [class |-> "nan", num |-> 0, den |-> 0]
    ELSE [class |-> "inf", num |-> 0, den |-> 0]

\* records_processed as f64 / duration.as_secs_f64(), the duration counted
\* in microseconds
RecordsPerSecond(records_processed, duration) ==
    F64Div(records_processed * MicrosPerSec, duration)

\* the estimate in whole megabytes
MemoryEstimateWhole(records_processed) ==
    F64Div((records_processed * BytesPerRecord) \div BytesPerMB, 1)

\* (records_processed * 100) as f64 / 1_000_000.0
MemoryEstimate(records_processed) ==
    F64Div(records_processed * BytesPerRecord, BytesPerMB)

\* PerformanceMetrics::new
PerformanceMetricsNew(operation, records_processed, duration) ==
    [operation |-> operation,
     records_processed |-> records_processed,
     duration |-> duration,
     records_per_second |-> RecordsPerSecond(records_processed, duration),
     memory_estimate_mb |-> MemoryEstimate(records_processed)]

\* operation labels given to PerformanceTimer::new
Labels == {"CSV File Upload", "Synchronous Processing"}

\* the benchmark strategies are not running
NoRun ==
    /\ strategy = "none"
    /\ file = [nlines |-> 0, bad |-> {}, blank |-> {}, ragged |-> FALSE]
    /\ pc = "idle"
    /\ chunk_size = 0
    /\ chunks = <<>>
    /\ tasks = <<>>
    /\ next = 1
    /\ joined = 0
    /\ total_records = 0
    /\ reduced = {}
    /\ main = [pos |-> 1, count |-> 0, yields |-> 0]
    /\ other = 0
    /\ finished = <<>>
    /\ outcome = "running"
    /\ order = <<>>

InitMetrics == NoRun /\ srv = NoServer /\ perf = NoTimers

\* PerformanceTimer::new: start = Instant::now()
TimerNew ==
    /\ Len(perf.timers) < MaxTimers
    /\ \E op \in Labels :
          perf' = [perf EXCEPT !.timers =
                      Append(@, [operation |-> op, start |-> perf.now, live |-> TRUE])]
    /\ UNCHANGED <<srv, benchVars>>

\* the monotonic clock advances by one microsecond
Tick ==
    /\ perf.now < MaxClock
    /\ perf' = [perf EXCEPT !.now = @ + 1]
    /\ UNCHANGED <<srv, benchVars>>

\* PerformanceTimer::finish(self, records_processed): the timer is moved
\* into the call, so only a timer not yet finished can be passed
TimerFinish ==
    /\ \E t \in 1..Len(perf.timers), n \in 0..MaxCount :
          /\ perf.timers[t].live
          /\ LET duration == perf.now - perf.timers[t].start
                 metrics == PerformanceMetricsNew(perf.timers[t].operation, n, duration)
             IN  perf' = [perf EXCEPT
                            !.timers[t].live = FALSE,
                            !.records = Append(@, metrics),
                            !.calls = Append(@, [timer |-> t,
                                                 records_processed |-> n,
                                                 duration |-> duration])]
    /\ UNCHANGED <<srv, benchVars>>

NextMetrics == TimerNew \/ Tick \/ TimerFinish

SpecMetrics == InitMetrics /\ [][NextMetrics]_vars

(* ---------------- the Axum server ---------------- *)

\* the handlers that use the shared AppState
Upload == "upload_csv"
Process == "process_csv_file"
Analyze == "analyze_csv"
GetMetrics == "get_metrics"

Handlers == {Upload, Process, Analyze, GetMetrics}

\* the one file name the requests ask for
Filename == "sales.csv"

\* the multipart bodies of an upload: the names of its fields, in order
RECURSIVE FieldSeqs(_)
FieldSeqs(n) ==
    IF n = 0 THEN {<<>>}
    ELSE FieldSeqs(n - 1)
         \cup {Append(q, f) : q \in {x \in FieldSeqs(n - 1) : Len(x) = n - 1},
                              f \in {"file", "other"}}

\* sample_data/<filename>: absent, with a row that does not decode, or with
\* `records` rows
Disks ==
    {[state |-> "missing", records |-> 0], [state |-> "bad", records |-> 0]}
    \cup {[state |-> "ok", records |-> n] : n \in 0..MaxRecords}

\* a request as its handler is entered; the handler's timer is created and
\* has produced nothing yet
NewRequest(kind, fields) ==
    [kind |-> kind,
     pc |-> IF kind = Upload THEN "next_field"
            ELSE IF kind = Process THEN "read"
            ELSE IF kind = Analyze THEN "lock_lookup"
            ELSE "lock_read",
     fields |-> fields,
     size |-> 0,
     finishes |-> 0,
     status |-> "pending"]

Requests ==
    {NewRequest(Upload, q) : q \in FieldSeqs(MaxFields)}
    \cup {NewRequest(k, <<>>) : k \in Handlers \ {Upload}}

InitServer ==
    /\ NoRun
    /\ perf = NoTimers
    /\ \E rs \in [1..MaxReq -> Requests], d \in Disks :
          srv = [NoServer EXCEPT !.reqs = rs, !.disk = d]

\* the handler returns with this status
Return(r, status) ==
    [srv EXCEPT !.reqs[r].pc = "done", !.reqs[r].status = status]

\* while let Some(field) = multipart.next_field().await ...; name == "file"
UploadNextField(r) ==
    /\ srv.reqs[r].pc = "next_field"
    /\ LET q == srv.reqs[r].fields
       IN  IF q = <<>>
           THEN srv' = Return(r, "bad_request")
           ELSE srv' = [srv EXCEPT !.reqs[r].fields = Tail(q),
                                   !.reqs[r].pc = IF Head(q) = "file" THEN "save"
                                                  ELSE "next_field"]
    /\ UNCHANGED <<perf, benchVars>>

\* field.bytes().await?, create_dir_all(..).await?, write(..).await?, then
\* timer.finish(data.len())
UploadSave(r) ==
    /\ srv.reqs[r].pc = "save"
    /\ \E ok \in BOOLEAN, n \in 0..MaxBytes :
          IF ~ok
          THEN srv' = Return(r, "error")
          ELSE srv' = [srv EXCEPT !.reqs[r].size = n,
                                  !.reqs[r].finishes = @ + 1,
                                  !.reqs[r].pc = "lock_upload"]
    /\ UNCHANGED <<perf, benchVars>>

\* the loop goes on to the next field after the metrics are stored
UploadContinues == "next_field"

\* return Ok(Json(..)) right after the metrics are stored
UploadAfterPush == "done"

\* app_state.upload_metrics.push(metrics); the guard is dropped
UploadPush(r) ==
    /\ srv.reqs[r].pc = "push_upload"
    /\ srv' = [srv EXCEPT
                 !.upload_metrics = Append(@, Metrics("CSV File Upload", srv.reqs[r].size)),
                 !.holder = 0,
                 !.reqs[r].pc = UploadAfterPush,
                 !.reqs[r].status = "ok"]
    /\ UNCHANGED <<perf, benchVars>>

\* HashMap::insert: the entry of the key is replaced. cached_data is the set
\* of its entries, each with the number of records it holds
CacheInsert(cache, filename, records) ==
    {e \in cache : e.filename # filename}
    \cup {[filename |-> filename, records |-> records]}

\* HashMap::get(&filename) is Some
Cached(cache, filename) == \E e \in cache : e.filename = filename

\* the rows decoded before the bad one are cached before the handler fails
ProcessReadCachesRows(r) ==
    /\ srv.reqs[r].pc = "read"
    /\ srv' = IF srv.disk.state = "missing" THEN Return(r, "not_found")
              ELSE IF srv.disk.state = "bad"
              THEN [Return(r, "bad_request") EXCEPT
                      !.cached_data = CacheInsert(@, Filename, 0)]
              ELSE [srv EXCEPT !.reqs[r].pc = "lock_cache",
                               !.reqs[r].size = srv.disk.records]
    /\ UNCHANGED <<perf, benchVars>>

\* fs::read_to_string(&file_path).await -> NOT_FOUND; the deserialize loop
\* -> BAD_REQUEST
ProcessRead(r) ==
    /\ srv.reqs[r].pc = "read"
    /\ srv' = IF srv.disk.state = "missing" THEN Return(r, "not_found")
              ELSE IF srv.disk.state = "bad" THEN Return(r, "bad_request")
              ELSE [srv EXCEPT !.reqs[r].pc = "lock_cache",
                               !.reqs[r].size = srv.disk.records]
    /\ UNCHANGED <<perf, benchVars>>

\* app_state.cached_data.insert(filename, records); the guard is dropped;
\* timer.finish(records.len())
ProcessInsert(r) ==
    /\ srv.reqs[r].pc = "insert"
    /\ srv' = [srv EXCEPT !.cached_data = CacheInsert(@, Filename, srv.reqs[r].size),
                          !.holder = 0,
                          !.reqs[r].finishes = @ + 1,
                          !.reqs[r].pc = "lock_metrics"]
    /\ UNCHANGED <<perf, benchVars>>

\* app_state.processing_metrics.push(metrics.clone()); the guard is dropped
ProcessPush(r) ==
    /\ srv.reqs[r].pc = "push_metrics"
    /\ srv' = [Return(r, "ok") EXCEPT
                 !.processing_metrics = Append(@, Metrics("Processing", srv.reqs[r].size)),
                 !.holder = 0]
    /\ UNCHANGED <<perf, benchVars>>

\* the guard kept alive until the handler returns
HolderKept(r) == r

\* the guard is dropped at the end of the block that clones the cache entry
HolderAfterLookup(r) == 0

\* app_state.cached_data.get(&filename).cloned()
AnalyzeLookup(r) ==
    /\ srv.reqs[r].pc = "lookup"
    /\ srv' = IF Cached(srv.cached_data, Filename)
              THEN [Return(r, "ok") EXCEPT !.holder = HolderAfterLookup(r)]
              ELSE [srv EXCEPT !.holder = HolderAfterLookup(r),
                               !.reqs[r].pc = "load"]
    /\ UNCHANGED <<perf, benchVars>>

\* not cached: fs::read_to_string(..).await -> NOT_FOUND, decode ->
\* BAD_REQUEST, else the analysis
AnalyzeLoad(r) ==
    /\ srv.reqs[r].pc = "load"
    /\ srv' = IF srv.disk.state = "missing" THEN Return(r, "not_found")
              ELSE IF srv.disk.state = "bad" THEN Return(r, "bad_request")
              ELSE Return(r, "ok")
    /\ UNCHANGED <<perf, benchVars>>

\* get_metrics builds its JSON under the lock and returns; no await
MetricsRespond(r) ==
    /\ srv.reqs[r].pc = "respond"
    /\ srv' = [Return(r, "ok") EXCEPT !.holder = 0]
    /\ UNCHANGED <<perf, benchVars>>

\* where a handler calls state.lock().unwrap(), and where it stands once it
\* has the guard
AfterLock(pc0) ==
    IF pc0 = "lock_upload" THEN "push_upload"
    ELSE IF pc0 = "lock_cache" THEN "insert"
    ELSE IF pc0 = "lock_metrics" THEN "push_metrics"
    ELSE IF pc0 = "lock_lookup" THEN "lookup"
    ELSE "respond"

LockPcs == {"lock_upload", "lock_cache", "lock_metrics", "lock_lookup", "lock_read"}

\* where a handler is suspended at an .await
AwaitPcs == {"next_field", "save", "read", "load"}

\* state.lock(): blocks until no other request holds the mutex
Lock(r) ==
    /\ srv.reqs[r].pc \in LockPcs
    /\ srv.holder = 0
    /\ srv' = [srv EXCEPT !.holder = r, !.reqs[r].pc = AfterLock(srv.reqs[r].pc)]
    /\ UNCHANGED <<perf, benchVars>>

\* one step of the handler of request r
Handler(r) ==
    \/ UploadNextField(r)
    \/ UploadSave(r)
    \/ UploadPush(r)
    \/ ProcessRead(r)
    \/ ProcessInsert(r)
    \/ ProcessPush(r)
    \/ AnalyzeLookup(r)
    \/ AnalyzeLoad(r)
    \/ MetricsRespond(r)
    \/ Lock(r)

NextServer == \E r \in 1..MaxReq : Handler(r)

SpecServer == InitServer /\ [][NextServer]_vars

\* the requests followed to their end: uploads of up to LiveFields fields,
\* the file absent or decodable
InitServerLive ==
    /\ InitServer
    /\ \A r \in 1..MaxReq : Len(srv.reqs[r].fields) <= LiveFields
    /\ srv.disk.state # "bad"
    /\ srv.disk.records = 0

\* the runtime keeps polling every request that can make a step
FairServer ==
    InitServerLive /\ [][NextServer]_vars /\ \A r \in 1..MaxReq : WF_vars(Handler(r))

(* ---------------- properties ---------------- *)

\* N, the number of data lines of the file that was split
NData == DataLines(file).len

\* the number of rows of the whole input that decode
TotalGood(f) == IF f.nlines = 0 THEN 0 ELSE GoodIn(f, 1, f.nlines - 1)

AllTasks(st) == \A i \in 1..Len(tasks) : tasks[i].st = st

\* C1: partition invariance of the worker pool. For an input with no bad
\* row and for every chunk size, the sum of the per-chunk counts, which is
\* the total handed to timer.finish, equals the count that the sequential
\* single-pass decode of the whole input obtains.
C1_PartitionInvariance ==
    (strategy = Parallel /\ file.bad = {}) =>
        /\ (chunk_size > 0 /\ AllTasks("done")) =>
              SumSeq([i \in 1..Len(tasks) |-> tasks[i].count]) = DecodeWhole(file).count
        /\ finished # <<>> =>
              finished = <<Metrics(Label(Parallel), DecodeWhole(file).count)>>
        /\ outcome = "ok" => finished # <<>>

C1_Witness ==
    /\ strategy = Parallel
    /\ file.bad = {}
    /\ file.blank # {}
    /\ Len(chunks) >= 3
    /\ outcome = "ok"
    /\ finished # <<>>
    /\ finished[1].records_processed = NData - 1

\* C2: a decode failure is surfaced. Whenever a data row of the input fails
\* to decode, a finished run of the Sequential or of the ParallelWorkerPool
\* strategy has ended in an error and has reported no total.
C2_FailuresSurfaced ==
    (strategy \in {Sync, Parallel} /\ file.bad # {} /\ pc = "done") =>
        (outcome \in {"err", "panic"} /\ finished = <<>>)

\* C3: chunk coverage. With N data lines and chunk size C a chunking site
\* makes exactly ceil(N/C) chunks, none of them empty, and the chunks laid
\* end to end are the data lines 1..N in order: the first starts at line 1,
\* each next one starts where the previous ends, the last ends at line N.
C3_ChunkCoverage ==
    chunk_size > 0 =>
        /\ Len(chunks) = CeilDiv(NData, chunk_size)
        /\ \A i \in 1..Len(chunks) : chunks[i].len >= 1
        /\ chunks # <<>> => chunks[1].start = 1
        /\ \A i \in 1..(Len(chunks) - 1) :
              chunks[i + 1].start = chunks[i].start + chunks[i].len
        /\ chunks # <<>> =>
              chunks[Len(chunks)].start + chunks[Len(chunks)].len - 1 = NData
        /\ chunks = <<>> => NData = 0

C3_Witness ==
    /\ strategy = Compare
    /\ Len(chunks) >= 2
    /\ chunks[Len(chunks)].len < chunk_size
    /\ chunks[Len(chunks) - 1].len = chunk_size

\* C4: order independence. Whatever the order in which workers and tasks
\* complete and are folded, and however their runs interleave, the total
\* handed to timer.finish is the number of decodable rows of the input.
C4_OrderIndependence ==
    (strategy \in ({Parallel} \cup TaskBased) /\ finished # <<>>) =>
        finished = <<Metrics(Label(strategy), TotalGood(file))>>

C4_Witness ==
    /\ strategy = AsyncParallel
    /\ pc = "done"
    /\ finished # <<>>
    /\ Len(order) >= 3
    /\ order[1] > order[2]
    /\ \E i \in 1..Len(tasks) : tasks[i].yields >= 2

\* C5 as stated: in a task-based strategy no count is in the total while a
\* spawned task is still running, and finish comes after all joins.
C5_SumAfterAllTasks ==
    strategy \in TaskBased =>
        /\ joined > 0 => \A i \in 1..Len(tasks) : tasks[i].st \in {"done", "panicked"}
        /\ finished # <<>> => joined = Len(tasks)

\* C5 amended: the await loop adds the count of a task only after that task
\* has run to its end, in spawn order and after every task was spawned
\* (later tasks may still be running); the total is the sum of the counts of
\* the tasks joined so far; timer.finish is called only when every task has
\* been joined, hence has completed.
C5_JoinBarrier ==
    strategy \in TaskBased =>
        /\ \A i \in 1..joined : tasks[i].st = "done"
        /\ joined > 0 => next > Len(chunks)
        /\ total_records = SumSeq([i \in 1..joined |-> tasks[i].count])
        /\ finished # <<>> => (joined = Len(tasks) /\ AllTasks("done"))

C5_Witness ==
    /\ strategy \in TaskBased
    /\ joined >= 1
    /\ total_records > 0
    /\ \E i \in 1..Len(tasks) : tasks[i].st = "ready"

\* C6: the empty input. With zero data lines (only a header, or no line at
\* all) a chunking strategy makes no chunk, reports a total of 0 and does
\* not panic.
C6_EmptyInput ==
    (strategy \in ChunkingSites /\ file.nlines <= 1) =>
        /\ outcome # "panic"
        /\ chunks = <<>>
        /\ \A i \in 1..Len(finished) : finished[i].records_processed = 0

\* C7: the yielding strategies agree with the sequential decode. For an
\* input with no bad row, the Cooperative strategy and the task-based
\* strategies hand to timer.finish the count of the single-pass decode of
\* the whole input, and a run that returns Ok has reported it.
C7_YieldingEquivalence ==
    (strategy \in ({Async} \cup TaskBased) /\ file.bad = {}) =>
        /\ finished # <<>> =>
              finished = <<Metrics(Label(strategy), DecodeWhole(file).count)>>
        /\ outcome = "ok" => finished # <<>>

C7_Witness ==
    /\ strategy = Async
    /\ file.bad = {}
    /\ file.blank # {}
    /\ main.yields >= 2
    /\ other > 0
    /\ outcome = "ok"
    /\ finished = <<Metrics(Label(Async), NData - 1)>>

\* C8: an aborted run reports nothing. A run is running, or has ended Ok,
\* with an Err or with a panic; when it has ended with an Err or a panic no
\* record exists for the failed operation (the only record a failed
\* compare_processing_methods can hold is the complete one of its method 1).
C8_AbortedRunsReportNothing ==
    /\ (pc = "done") <=> (outcome \in {"ok", "err", "panic"})
    /\ pc # "done" => outcome = "running"
    /\ outcome \in {"err", "panic"} =>
          \A i \in 1..Len(finished) :
              /\ strategy = Compare
              /\ finished[i] = Metrics("Standard Async Processing", TotalGood(file))
              /\ file.bad = {}

C8_Witness ==
    /\ strategy = Concurrent
    /\ outcome = "err"
    /\ joined >= 1
    /\ total_records > 0
    /\ finished = <<>>

\* C9: the hybrid strategy spawns one task per chunk and never more than
\* its target count of 8.
C9_FixedTaskCount ==
    strategy = AsyncParallel =>
        /\ Len(tasks) = Len(chunks)
        /\ Len(chunks) <= AsyncParallelTarget

\* C10: chunk-size policy and remainder. The size is the larger of the floor
\* and N div target (target: the core count, 8 or 4); every chunk but the
\* last holds exactly `size` lines and, for N >= 1, the last one holds
\* N - size * (ceil(N/size) - 1) lines, a number in 1..size.
C10_SizeAndRemainder ==
    (strategy \in {Parallel, AsyncParallel, Concurrent} /\ chunk_size > 0) =>
        LET k == Len(chunks)
            last == NData - chunk_size * (CeilDiv(NData, chunk_size) - 1)
        IN  /\ strategy = AsyncParallel =>
                  chunk_size = Max2(FixedFloor, NData \div AsyncParallelTarget)
            /\ strategy = Concurrent =>
                  chunk_size = Max2(FixedFloor, NData \div ConcurrentTarget)
            /\ strategy = Parallel =>
                  \E c \in 1..MaxCpus : chunk_size = Max2(FixedFloor, NData \div c)
            /\ \A i \in 1..(k - 1) : chunks[i].len = chunk_size
            /\ NData >= 1 =>
                  /\ k >= 1
                  /\ chunks[k].len = last
                  /\ 1 <= last /\ last <= chunk_size

C10_Witness ==
    /\ strategy = Concurrent
    /\ chunk_size = FixedFloor
    /\ Len(chunks) = ConcurrentTarget + 1
    /\ chunks[Len(chunks)].len = 1

\* C11: the cooperative loops suspend every K rows (K = 1000 in
\* benchmark_async_processing, 100 in async_benchmark). Rows are decoded in
\* input order: the count is the number of decodable rows before the current
\* position. The loop has suspended exactly floor(count / K) times; while
\* it is suspended the count is a multiple of K and, past the start, the
\* row just before the position is the decoded row that reached it. A run
\* over n decodable rows therefore ends after floor(n / K) suspensions.
C11_SuspendEveryK ==
    strategy \in Cooperative =>
        LET k == IF strategy = Async THEN YieldEvery ELSE SimpleYieldEvery
            view == CoopView(file, strategy)
        IN  /\ main.count = GoodIn(view, 1, main.pos - 1)
            /\ main.yields = main.count \div k
            /\ pc = "loaded" =>
                  /\ main.count % k = 0
                  /\ main.count > 0 => (main.pos - 1) \notin (view.bad \cup view.blank)
            /\ outcome = "ok" => main.yields = TotalGood(view) \div k

C11_Witness ==
    /\ strategy = SimpleAsync
    /\ file.bad # {}
    /\ ~file.ragged
    /\ file.blank # {}
    /\ outcome = "ok"
    /\ main.yields = 2 * SimpleYieldEvery

\* C12: inside a task of the hybrid strategy a suspension happens only at
\* the every-K-rows checkpoints: the task has suspended floor(count / K)
\* times, never before a row was counted and never more often than once per
\* K rows it has iterated, bad rows included.
C12_TaskSuspendEveryK ==
    strategy = AsyncParallel =>
        \A i \in 1..Len(tasks) :
            LET t == tasks[i]
                iterated == (t.pos - chunks[i].start)
                            - Cardinality({q \in file.blank : chunks[i].start <= q /\ q < t.pos})
            IN  /\ t.yields = t.count \div YieldEvery
                /\ t.yields > 0 => t.count > 0
                /\ t.yields <= iterated \div YieldEvery

NoDup(s) == \A i, j \in 1..Len(s) : i # j => s[i] # s[j]

ScatterStep ==
    strategy \in ({Parallel} \cup TaskBased) =>
         /\ file' = file
         /\ chunks # <<>> => chunks' = chunks
         /\ tasks # <<>> =>
               /\ Len(tasks') = Len(tasks)
               /\ Cardinality({i \in 1..Len(tasks) : tasks'[i] # tasks[i]}) <= 1
         /\ \A i \in 1..Len(tasks) :
               tasks[i].st \in {"done", "panicked"} => tasks'[i] = tasks[i]
         /\ (tasks # <<>> /\ tasks' # tasks) =>
               UNCHANGED <<total_records, joined, reduced, finished, chunks>>
         /\ NoDup(order')
         /\ Len(tasks') = Len(chunks')
         /\ \A i \in 1..Len(tasks') :
               /\ chunks'[i].start <= tasks'[i].pos
               /\ tasks'[i].pos <= chunks'[i].start + chunks'[i].len
         /\ finished' # <<>> =>
               {order'[i] : i \in 1..Len(order')} = 1..Len(chunks')

\* C13: scatter to exactly one unit, no shared mutation. In the worker-pool
\* and task-based strategies no step changes the file; the chunks, once
\* made, stay as they are; a step changes at most one unit's state, and
\* when it does it leaves the total and the reduction alone; a unit that
\* has finished is never run again, so each chunk is decoded once, by the
\* unit of its own index working inside its own slice.
C13_ScatterNoSharing == [][ScatterStep]_vars

C13_Witness ==
    /\ strategy = Parallel
    /\ pc = "done"
    /\ finished # <<>>
    /\ Len(order) >= 3
    /\ order[1] # 1
    /\ file.bad # {}

\* C14: completion. Under fair scheduling every run eventually returns to
\* its caller, with a total or with a failure; a task-based run that returns
\* a total has joined every task it spawned, however often they yielded.
C14_Completion ==
    <>(/\ pc = "done"
       /\ outcome # "running"
       /\ (strategy \in TaskBased /\ outcome = "ok") =>
              (joined = Len(tasks) /\ AllTasks("done")))

C14_Witness ==
    /\ strategy = AsyncParallel
    /\ pc = "done"
    /\ outcome = "ok"
    /\ joined = Len(tasks)
    /\ Len(tasks) >= 2
    /\ order[1] # 1
    /\ \E i \in 1..Len(tasks) : tasks[i].yields >= FixedFloor \div YieldEvery

\* C18: concurrent_chunk_processing splits every input into at least four
\* chunks.
C18_AtLeastFourChunks ==
    (strategy = Concurrent /\ pc # "loaded") => Len(chunks) >= ConcurrentTarget

\* C19: the chunk size is never zero. At every chunking site, for every
\* N >= 0 and every core count >= 1, the size expression is at least 1; no
\* split panics on a zero size, and every chunk made holds at least one line.
C19_ChunkSizeNonZero ==
    /\ \A site \in ChunkingSites, cpus \in 1..MaxCpus :
          ChunkSize(site, NData, cpus) >= 1
    /\ outcome # "panic"
    /\ pc \in {"workers", "spawn", "chunkloop"} => chunk_size >= 1
    /\ \A i \in 1..Len(chunks) : chunk_size >= 1 /\ chunks[i].len >= 1

C19_Witness ==
    /\ strategy = AsyncParallel
    /\ NData >= 1
    /\ NData < AsyncParallelTarget
    /\ chunk_size = FixedFloor
    /\ Len(chunks) = 1

\* C16: zero-duration edge case. Every record produced with an elapsed
\* duration of zero carries in its throughput field one defined sentinel,
\* the same for a zero and for a non-zero count, and that sentinel is not
\* infinity.
C16_ZeroDurationSentinel ==
    \A i, j \in 1..Len(perf.records) :
        (perf.records[i].duration = 0 /\ perf.records[j].duration = 0) =>
            /\ perf.records[i].records_per_second = perf.records[j].records_per_second
            /\ perf.records[i].records_per_second.class # "inf"

\* C17: metrics determinism. Every record stores the count it was given
\* unchanged, and its memory estimate is count * 100 bytes over 1000000:
\* records built from the same count have the same estimate whatever their
\* label or duration, and a count of 2 gives 200 bytes, 0.0002 MB.
C17_MemoryFromCountAlone ==
    /\ Len(perf.records) = Len(perf.calls)
    /\ \A i \in 1..Len(perf.records) :
          LET m == perf.records[i]
          IN  /\ m.records_processed = perf.calls[i].records_processed
              /\ m.memory_estimate_mb =
                    [class |-> "finite", num |-> m.records_processed * BytesPerRecord,
                     den |-> BytesPerMB]
              /\ m.records_processed = 2 => m.memory_estimate_mb.num = 200
    /\ \A i, j \in 1..Len(perf.records) :
          perf.records[i].records_processed = perf.records[j].records_processed =>
              perf.records[i].memory_estimate_mb = perf.records[j].memory_estimate_mb

C17_Witness ==
    \E i, j \in 1..Len(perf.records) :
        /\ perf.records[i].records_processed = 2
        /\ perf.records[j].records_processed = 2
        /\ perf.records[i].operation # perf.records[j].operation
        /\ perf.records[i].duration = 0
        /\ perf.records[j].duration > 0
        /\ perf.records[i].memory_estimate_mb.num = 200

\* C15: one record per timer. No handler's timer is finished more than
\* once, whatever the fields of an upload are, and the server holds no more
\* upload records than upload requests that finished their timer.
C15_OneRecordPerTimer ==
    /\ \A r \in 1..Len(srv.reqs) : srv.reqs[r].finishes <= 1
    /\ Len(srv.upload_metrics)
          <= Cardinality({r \in 1..Len(srv.reqs) :
                            srv.reqs[r].kind = Upload /\ srv.reqs[r].finishes = 1})

C15_Witness ==
    \E r \in 1..Len(srv.reqs) :
        /\ srv.reqs[r].kind = Upload
        /\ srv.reqs[r].pc = "done"
        /\ srv.reqs[r].status = "ok"
        /\ srv.reqs[r].finishes = 1
        /\ srv.reqs[r].fields = <<"file">>

\* C20: the AppState mutex is never held across an await. A request that
\* is suspended at an await, is waiting for the lock or has returned does
\* not hold the mutex; every request that asks for the lock eventually has
\* it; and every request eventually returns, so no interleaving deadlocks.
C20_LockNotHeldAcrossAwait ==
    /\ [](\A r \in 1..MaxReq :
             srv.reqs[r].pc \in (AwaitPcs \cup LockPcs \cup {"done"}) => srv.holder # r)
    /\ \A r \in 1..MaxReq : (srv.reqs[r].pc \in LockPcs) ~> (srv.holder = r)
    /\ <>(\A r \in 1..MaxReq : srv.reqs[r].pc = "done")

C20_Witness ==
    /\ srv.holder = 1
    /\ srv.reqs[1].kind = Process
    /\ Len(srv.reqs) >= 2
    /\ srv.reqs[2].kind = Analyze
    /\ srv.reqs[2].pc = "lock_lookup"

\* the requests handled by process_csv_file
ProcessReqs == {r \in 1..Len(srv.reqs) : srv.reqs[r].kind = Process}

Failed(st) == st \in {"not_found", "bad_request"}

\* what a step does to the shared state as far as process_csv_file goes
ProcessUpdateStep ==
    LET done(q) == {r \in ProcessReqs : q[r].status = "ok"}
    IN  \* one metric for each request that has returned Ok, after this step
        /\ Len(srv'.processing_metrics) = Cardinality(done(srv'.reqs))
        \* a request that fails has touched nothing, before or in this step
        /\ \A r \in ProcessReqs :
              (srv.reqs[r].status = "pending" /\ Failed(srv'.reqs[r].status)) =>
                  /\ srv.reqs[r].pc = "read"
                  /\ srv.reqs[r].finishes = 0
                  /\ srv'.cached_data = srv.cached_data
                  /\ srv'.processing_metrics = srv.processing_metrics
                  /\ srv'.upload_metrics = srv.upload_metrics
        \* a request that succeeds appends exactly one metric, for all the
        \* records of the file, and these records are what the cache holds
        /\ \A r \in ProcessReqs :
              (srv.reqs[r].status = "pending" /\ srv'.reqs[r].status = "ok") =>
                  /\ srv'.processing_metrics =
                        Append(srv.processing_metrics,
                               Metrics("Processing", srv.disk.records))
                  /\ srv'.cached_data = srv.cached_data
                  /\ srv.cached_data = {[filename |-> Filename,
                                         records |-> srv.disk.records]}
        \* the cache and the metrics change only in the two critical sections
        /\ srv'.cached_data # srv.cached_data =>
              /\ \E r \in ProcessReqs :
                    srv.reqs[r].pc = "insert" /\ srv'.reqs[r].pc = "lock_metrics"
              /\ srv'.processing_metrics = srv.processing_metrics
        /\ srv'.processing_metrics # srv.processing_metrics =>
              \E r \in ProcessReqs :
                  srv.reqs[r].pc = "push_metrics" /\ srv'.reqs[r].pc = "done"

\* C21: process_csv_file leaves the shared state unchanged when it fails
\* (file unreadable, or a row that does not decode) and updates it exactly
\* once when it succeeds: the cache entry of the file holds all its records
\* and one metric is appended, so under every interleaving the length of
\* processing_metrics is the number of process requests that returned Ok.
C21_ProcessUpdatesOnce == [][ProcessUpdateStep]_vars

C21_Witness ==
    /\ Len(srv.reqs) >= 2
    /\ \A r \in 1..2 : srv.reqs[r].kind = Process /\ srv.reqs[r].status = "ok"
    /\ Len(srv.processing_metrics) = 2
    /\ srv.disk.records >= 1
    /\ srv.cached_data = {[filename |-> Filename, records |-> srv.disk.records]}
====
